---- MODULE Spec2Model ----
(***************************************************************************)
(* Model of the novera frontend: the authenticated API client             *)
(* (services/api.ts, axios instance with its request and response         *)
(* interceptors) and the session lifecycle of contexts/AuthContext.tsx.   *)
(*                                                                         *)
(* Tokens are positive integers handed out by the backend in increasing   *)
(* order; 0 stands for "no value" (localStorage.getItem returning null, a *)
(* missing Authorization header, a missing refresh_token in a response).  *)
(* HTTP statuses are the integers themselves; 0 is an error without a     *)
(* response (error.response undefined, the "Network Error" case).         *)
(***************************************************************************)
EXTENDS Integers, Sequences, FiniteSets, TLC

----------------------------------------------------------------------------
(* Bounds *)

\* number of request slots, i.e. of API calls that can be in flight at once;
\* slot 1 also serves the calls of AuthContext, which runs one at a time
MaxReq == 2

\* number of access tokens the backend issues in one behaviour
MaxToken == 3

\* number of loadCustomization calls that can wait for their answer at once
MaxLoads == 2

\* length of the longest string handed to hexToRgb on its own
MaxHexLen == 7

\* number of messages in the chat before the user stops sending
MaxMsgs == 4

\* length of the longest text typed into the chat box
MaxInputLen == 2

\* number of toasts shown before the application stops showing more
MaxToasts == 3

\* length of the longest text typed into the search box of the palette
MaxSearchLen == 2

\* number of uploads started in one opening of the upload modal
MaxUploads == 3

----------------------------------------------------------------------------
(* Vocabulary *)

Req == 1..MaxReq

Keys == {"access_token", "refresh_token", "debug"}

\* kinds of call made through the ApiService instance, by caller
Kinds == {"data", "me", "login", "register", "logout"}

\* outcomes of one HTTP exchange: 2xx, 401, 422, or no response at all
Statuses == {200, 401, 422, 0}

\* outcomes of POST /auth/refresh that are not a 2xx
RefreshFailures == {401, 0}

\* the routes of App.tsx that matter to the client
Paths == {"/login", "/chat"}

NoHref == "none"

\* attempt = 1 or 2: settled by that send of the request; attempt = 0: settled
\* by the error of the refresh call; attempt = -1: not settled yet
NoResult == [attempt |-> -1, status |-> -1]

\* st: state of the request's promise; retry: config._retry; auth: the
\* Authorization header of the config; sends: times it went on the wire; got:
\* status of its latest answer; refreshes: refresh calls made for it; rst, rgot:
\* state and status of that refresh call; result: what the caller was handed
IdleReq ==
  [st |-> "idle", kind |-> "data", retry |-> FALSE, auth |-> 0, sends |-> 0,
   got |-> -1, refreshes |-> 0, rst |-> "none", rgot |-> -1, result |-> NoResult]

EmptyStorage == [k \in Keys |-> 0]

VARIABLES
  storage,    \* localStorage: key -> value, 0 when the key is absent
  pathname,   \* window.location.pathname of the loaded document
  href,       \* navigation requested by assigning window.location.href
  reqs,       \* per slot: the request config and the state of its promise
  nextTok,    \* the next access token the backend will issue
  user,       \* AuthProvider state `user` (0 = null)
  loading,    \* AuthProvider state `loading`
  doc,        \* the document: style variables, body font, icon links, title
  theme,      \* CustomizationProvider state and the fate of its loads
  shade,      \* one shade derivation: its input and its output
  widgets     \* the helper or page component under study, by name

\* the variables of the API client and of the theme engine
apiVars == <<storage, pathname, href, reqs, nextTok, user, loading>>

themeVars == <<doc, theme, shade>>

\* the variables of the helpers and page components studied one at a time
widgetVars == <<widgets>>

vars == <<storage, pathname, href, reqs, nextTok, user, loading, doc, theme, shade, widgets>>

\* one hexToRgb call: its input and its result
parse == widgets.parse

\* ChatPage: messages, input, loading and the send under way
chat == widgets.chat

\* the ToastManager singleton, its timers and its listeners
toast == widgets.toast

\* CommandPalette: search text, item list and selected index
palette == widgets.palette

\* UploadModal: progress, flags, the upload and its tickers
upload == widgets.upload

----------------------------------------------------------------------------
(* localStorage *)

getItem(store, k) == store[k]

setItem(store, k, v) == [store EXCEPT ![k] = v]

removeItem(store, k) == [store EXCEPT ![k] = 0]

\* localStorage.clear(): every key of the origin goes
clear(store) == [k \in DOMAIN store |-> 0]

\* AuthContext: removeItem('access_token'); removeItem('refresh_token')
ClearTokens(store) == removeItem(removeItem(store, "access_token"), "refresh_token")

----------------------------------------------------------------------------
(* ApiService interceptors *)

\* variant: the interceptor leaves the header as the caller built it
AttachToken_Never(hdr, store) == hdr

\* request interceptor: the header of the outgoing config
AttachToken(hdr, store) ==
  LET token == getItem(store, "access_token")
  IN  IF token # 0 THEN token ELSE hdr

\* variant: the _retry flag is not consulted
IsAuthError_NoRetryGuard(status, retry) == status = 401

\* variant: a validation error is taken for an expired token
IsAuthError_422(status, retry) == status \in {401, 422} /\ ~retry

\* variant: an error without a response is taken for an expired token
IsAuthError_NoResponse(status, retry) == status \in {401, 0} /\ ~retry

\* the guard of the authentication branch of the response interceptor
IsAuthError(status, retry) == status = 401 /\ ~retry

\* variant: the session is left in place
NoRefreshTokenStorage_Kept(store) == store

\* storage after the 401 branch found no refresh token
NoRefreshTokenStorage(store) == clear(store)

\* variant: the refresh call is not awaited, the request goes out again at once
StartRefresh_NoAwait(r) ==
  [r EXCEPT !.refreshes = @ + 1, !.rst = "pending", !.sends = @ + 1]

\* variant: the request waits for a refresh without calling the endpoint itself
StartRefresh_Joined(r) == [r EXCEPT !.st = "refreshing", !.rst = "pending"]

\* the request once the refresh call has been issued and is awaited
StartRefresh(r) ==
  [r EXCEPT !.st = "refreshing", !.refreshes = @ + 1, !.rst = "pending"]

\* variant: the new token is used for the resend but never stored
RefreshedStorage_NotPersisted(store, access_token) == store

\* storage after a successful refresh
RefreshedStorage(store, access_token) == setItem(store, "access_token", access_token)

\* the resend of the original config: its header is set to the new token and
\* the request interceptor runs over it again
Resend(r, access_token, store) ==
  [r EXCEPT !.st = "sending", !.rst = "ok", !.rgot = 200,
            !.auth = AttachToken(access_token, store), !.sends = @ + 1]

\* variant: only the access token is removed
RefreshFailedStorage_AccessOnly(store) == removeItem(store, "access_token")

\* storage after a failed refresh
RefreshFailedStorage(store) ==
  removeItem(removeItem(store, "access_token"), "refresh_token")

\* window.location.pathname.includes('/login'), over the routes of App.tsx
IncludesLogin(p) == p = "/login"

\* window.location.href after a failed refresh
RefreshFailedHref(p, h) == IF ~IncludesLogin(p) THEN "/login" ELSE h

\* the config a caller hands to this.api, after the request interceptor ran
NewRequest(kind, store) ==
  [st |-> "sending", kind |-> kind, retry |-> FALSE, auth |-> AttachToken(0, store),
   sends |-> 1, got |-> -1, refreshes |-> 0, rst |-> "none", rgot |-> -1,
   result |-> NoResult]

----------------------------------------------------------------------------
(* AuthContext: what the awaiting caller does once its call has settled *)

\* storage after the caller's continuation; acc/rt are the tokens of a
\* login or registration response (rt = 0: no refresh_token in it)
CallerStorage_LogoutRethrows(kind, ok, store, acc, rt) ==
  CASE kind \in {"login", "register"} /\ ok ->
         LET s1 == setItem(store, "access_token", acc)
         IN  IF rt # 0 THEN setItem(s1, "refresh_token", rt) ELSE s1
    [] kind = "me" /\ ~ok -> ClearTokens(store)
    [] kind = "logout" /\ ok -> ClearTokens(store)
    [] OTHER -> store

CallerStorage(kind, ok, store, acc, rt) ==
  CASE kind \in {"login", "register"} /\ ok ->
         LET s1 == setItem(store, "access_token", acc)
         IN  IF rt # 0 THEN setItem(s1, "refresh_token", rt) ELSE s1
    [] kind = "me" /\ ~ok -> ClearTokens(store)
    [] kind = "logout" -> ClearTokens(store)
    [] OTHER -> store

CallerUser(kind, ok, usr) ==
  CASE kind \in {"login", "register", "me"} /\ ok -> 1
    [] kind = "logout" -> 0
    [] OTHER -> usr

CallerLoading_NoFinally(kind, ld) == ld

CallerLoading(kind, ld) == IF kind = "me" THEN FALSE ELSE ld

\* the promise of request i settles with res; r1 is its config by then (dropped
\* with its header once settled), store1 and href1 the storage and the
\* navigation left by the interceptor
Settle(i, r1, res, store1, href1, acc, rt) ==
  LET ok == res.status = 200
  IN  /\ reqs' = [reqs EXCEPT ![i] =
            [r1 EXCEPT !.st = "done", !.result = res, !.auth = 0]]
      /\ storage' = CallerStorage(r1.kind, ok, store1, acc, rt)
      /\ user' = CallerUser(r1.kind, ok, user)
      /\ loading' = CallerLoading(r1.kind, loading)
      /\ href' = href1

----------------------------------------------------------------------------
(* Page life cycle *)

\* AuthProvider mounts: checkAuth either gives up at once or asks for the user
MountReqs(store) ==
  IF getItem(store, "access_token") = 0
    THEN [i \in Req |-> IdleReq]
    ELSE [i \in Req |-> IF i = 1 THEN NewRequest("me", store) ELSE IdleReq]

MountLoading(store) == getItem(store, "access_token") # 0

----------------------------------------------------------------------------
(* Theme engine: contexts/CustomizationContext.tsx, values and helpers *)

\* A colour string is the sequence of its characters, so that hexToRgb is
\* modelled by what its regular expression accepts.  A URL is a sequence of
\* chunks whose first chunk is "http" exactly when the string starts with
\* 'http'; concatenation of strings is concatenation of sequences.  The empty
\* string and <<>> stand for null (both are falsy in the guards of applyTheme).
\* A JavaScript number x of the shade arithmetic is the integer Scale * x:
\* two decimals hold every product of a channel and a shade factor exactly.
Scale == 100

Num(n) == n * Scale

IsWhole(x) == x % Scale = 0

LowerHex == <<"0", "1", "2", "3", "4", "5", "6", "7", "8", "9", "a", "b", "c", "d", "e", "f">>

UpperHex == <<"0", "1", "2", "3", "4", "5", "6", "7", "8", "9", "A", "B", "C", "D", "E", "F">>

\* the character class [a-f\d] under the flag i
IsHexDigit_LowerOnly(ch) == \E k \in 1..16 : LowerHex[k] = ch

IsHexDigit(ch) == \E k \in 1..16 : LowerHex[k] = ch \/ UpperHex[k] = ch

\* parseInt(pair, 16) of a two-digit group the regular expression captured
parseInt16(pair) ==
  LET digit(ch) == (CHOOSE k \in 1..16 : LowerHex[k] = ch \/ UpperHex[k] = ch) - 1
  IN  16 * digit(pair[1]) + digit(pair[2])

NoRgb == [ok |-> FALSE, r |-> -1, g |-> -1, b |-> -1]

\* /^#?([a-f\d]{2})([a-f\d]{2})([a-f\d]{2})$/i.exec(hex), then parseInt of
\* each group; ok = FALSE is the null result
hexToRgb(hex) ==
  LET body == IF Len(hex) > 0 /\ hex[1] = "#" THEN Tail(hex) ELSE hex
  IN  IF Len(body) = 6 /\ \A k \in 1..6 : IsHexDigit(body[k])
        THEN [ok |-> TRUE,
              r |-> Num(parseInt16(SubSeq(body, 1, 2))),
              g |-> Num(parseInt16(SubSeq(body, 3, 4))),
              b |-> Num(parseInt16(SubSeq(body, 5, 6)))]
        ELSE NoRgb

\* the shade table of generateColorShades; lightness in hundredths
shades ==
  << [name |-> "50", lightness |-> 95],
     [name |-> "100", lightness |-> 90],
     [name |-> "200", lightness |-> 80],
     [name |-> "300", lightness |-> 60],
     [name |-> "400", lightness |-> 40],
     [name |-> "500", lightness |-> 0],
     [name |-> "600", lightness |-> -10],
     [name |-> "700", lightness |-> -20],
     [name |-> "800", lightness |-> -30],
     [name |-> "900", lightness |-> -40] >>

\* product of two numbers; exact whenever one of them is whole
Times(x, y) == (x * y) \div Scale

\* The code multiplies IEEE-754 doubles.  1 + (-0.3) is the double just below
\* 0.7, and for these channel values the double product value * (1 + amount)
\* stays just below the real product, which ends in .5: 31.499999999999996 for
\* 45, 59.49999999999999 for 85, 115.49999999999999 for 165 and
\* 122.49999999999999 for 175.  For every other channel value and shade factor
\* the double result rounds as the real one does.
DoubleFallsShort_Never(value, amount) == FALSE

DoubleFallsShort(value, amount) ==
  amount = -30 /\ value \in {Num(45), Num(85), Num(165), Num(175)}

\* the double product, to the precision Math.round can tell apart
DoubleTimes(value, amount) ==
  Times(value, Scale + amount) - (IF DoubleFallsShort(value, amount) THEN 1 ELSE 0)

\* Math.round of a number that is not negative: the nearest integer, a half
\* going up
MathRound_Identity(x) == x

MathRound(x) == ((x + Scale \div 2) \div Scale) * Scale

MathMin(x, y) == IF x < y THEN x ELSE y

MathMax(x, y) == IF x > y THEN x ELSE y

\* the closure `adjust` of adjustLightness
adjust(value, amount) ==
  IF amount > 0
    THEN MathRound(value + Times(Num(255) - value, amount))
    ELSE MathRound(DoubleTimes(value, amount))

adjustLightness(rgb, amount) ==
  [r |-> MathMax(0, MathMin(Num(255), adjust(rgb.r, amount))),
   g |-> MathMax(0, MathMin(Num(255), adjust(rgb.g, amount))),
   b |-> MathMax(0, MathMin(Num(255), adjust(rgb.b, amount)))]

\* the fields of Customization.colors, one style variable each
ColorNames ==
  {"primary", "secondary", "accent", "background", "sidebar", "text_primary",
   "text_secondary", "button_primary", "button_text"}

\* the base colours a shade ramp is derived from
BaseNames == {"primary", "secondary", "accent"}

Colors(p, s, a, bg, sb, tp, ts, bp, bt) ==
  [primary |-> p, secondary |-> s, accent |-> a, background |-> bg,
   sidebar |-> sb, text_primary |-> tp, text_secondary |-> ts,
   button_primary |-> bp, button_text |-> bt]

Customization(id, favicon_url, colors, font_family, font_size_base, font_size_heading, border_radius, spacing_unit, app_name) ==
  [id |-> id, favicon_url |-> favicon_url, colors |-> colors,
   typography |-> [font_family |-> font_family, font_size_base |-> font_size_base,
                   font_size_heading |-> font_size_heading],
   layout |-> [border_radius |-> border_radius, spacing_unit |-> spacing_unit],
   branding |-> [app_name |-> app_name]]

White == <<"#", "f", "f", "f", "f", "f", "f">>

Sky == <<"#", "0", "e", "a", "5", "e", "9">>

Fuchsia == <<"#", "d", "9", "4", "6", "e", "f">>

Violet == <<"#", "8", "b", "5", "c", "f", "6">>

Ink == <<"#", "1", "1", "1", "8", "2", "7">>

Slate == <<"#", "6", "b", "7", "2", "8", "0">>

DEFAULT_CUSTOMIZATION ==
  Customization("default", <<>>,
                Colors(Sky, Fuchsia, Violet, White, White, Ink, Slate, Sky, White),
                "", "14px", "24px", "8px", "16px", "")

\* useState<Customization | null>(null): a value with none of the fields
NoCustomization == [id |-> "null"]

\* Records the backend can serve.  CustomA supplies everything, with an
\* upper-case primary, an accent without '#', and a relative favicon URL.
CustomA ==
  Customization("A", << "/uploads/favicon.ico" >>,
                Colors(<<"#", "1", "D", "4", "E", "D", "8">>,
                       <<"#", "9", "3", "3", "3", "e", "a">>,
                       <<"f", "5", "9", "e", "0", "b">>,
                       <<"#", "f", "8", "f", "a", "f", "c">>, Ink, Ink, Slate,
                       <<"#", "1", "D", "4", "E", "D", "8">>, White),
                "Inter", "16px", "28px", "4px", "8px", "Acme")

\* a named colour as primary; no font family, favicon or application name
CustomB ==
  Customization("B", <<>>,
                Colors(<<"r", "e", "d">>, Fuchsia, Violet, White, White, Ink,
                       Slate, <<"r", "e", "d">>, White),
                "", "15px", "26px", "6px", "12px", "")

\* 3-digit shorthand as secondary, five digits as accent; an absolute favicon
CustomC ==
  Customization("C", << "http", "s://cdn.example/c.ico" >>,
                Colors(Sky, <<"#", "f", "f", "f">>, <<"#", "1", "2", "3", "4", "5">>,
                       White, White, Ink, Slate, Sky, White),
                "Roboto", "14px", "24px", "8px", "16px", "Beta")

Served == {CustomA, CustomB, CustomC}

\* import.meta.env.VITE_API_URL || 'http://localhost:8000'
API_BASE == << "http", "://localhost:8000" >>

startsWithHttp(url) == Len(url) > 0 /\ url[1] = "http"

fullFaviconUrl_NoPrefix(favicon_url) == favicon_url

fullFaviconUrl(favicon_url) ==
  IF startsWithHttp(favicon_url) THEN favicon_url ELSE API_BASE \o favicon_url

\* links: the href of every link[rel~='icon'] element, in document order;
\* querySelector answers the first
updateFavicon_AlwaysInsert(links, faviconUrl) == Append(links, faviconUrl)

updateFavicon(links, faviconUrl) ==
  IF Len(links) > 0
    THEN [links EXCEPT ![1] = faviconUrl]
    ELSE Append(links, faviconUrl)

\* a document no theme was applied to
BlankDoc(links, title) ==
  [colors |-> [n \in ColorNames |-> <<>>],
   fontFamily |-> "", bodyFont |-> "", fontSizeBase |-> "", fontSizeHeading |-> "",
   borderRadius |-> "", spacingUnit |-> "",
   primaryRgb |-> <<>>,
   shades |-> [n \in BaseNames |-> <<>>],
   links |-> links, title |-> title]

\* applyTheme, lines 589-597: the nine colour variables
SetColors_NoSidebar(d, c) ==
  [d EXCEPT !.colors = [n \in ColorNames |-> IF n = "sidebar" THEN d.colors[n] ELSE c.colors[n]]]

SetColors(d, c) == [d EXCEPT !.colors = [n \in ColorNames |-> c.colors[n]]]

\* lines 600-608; every Customization has a typography
SetTypography(d, c) ==
  LET t == c.typography
      d1 == IF t.font_family # ""
              THEN [d EXCEPT !.fontFamily = t.font_family, !.bodyFont = t.font_family]
              ELSE d
  IN  [d1 EXCEPT !.fontSizeBase = t.font_size_base,
                 !.fontSizeHeading = t.font_size_heading]

\* lines 611-615; every Customization has a layout
SetLayout_RadiusOnly(d, c) == [d EXCEPT !.borderRadius = c.layout.border_radius]

SetLayout(d, c) ==
  [d EXCEPT !.borderRadius = c.layout.border_radius,
            !.spacingUnit = c.layout.spacing_unit]

\* the ten variables --color-<name>-<shade> are written together: the ramp of
\* a name is the sequence of its ten shades, <<>> while none was written
generateColorShades(d, baseColor, name) ==
  LET rgb == hexToRgb(baseColor)
  IN  IF ~rgb.ok
        THEN d
        ELSE [d EXCEPT !.shades[name] =
                [k \in 1..Len(shades) |-> adjustLightness(rgb, shades[k].lightness)]]

\* lines 618-627
SetShades(d, c) ==
  LET rgb == hexToRgb(c.colors.primary)
  IN  IF rgb.ok
        THEN generateColorShades(
               generateColorShades(
                 generateColorShades([d EXCEPT !.primaryRgb = <<rgb.r, rgb.g, rgb.b>>],
                                     c.colors.primary, "primary"),
                 c.colors.secondary, "secondary"),
               c.colors.accent, "accent")
        ELSE d

\* lines 630-636
SetFavicon(d, c) ==
  IF c.favicon_url # <<>>
    THEN [d EXCEPT !.links = updateFavicon(d.links, fullFaviconUrl(c.favicon_url))]
    ELSE d

\* lines 639-641
SetTitle(d, c) ==
  IF c.branding.app_name # "" THEN [d EXCEPT !.title = c.branding.app_name] ELSE d

applyTheme(d, c) ==
  SetTitle(SetFavicon(SetShades(SetLayout(SetTypography(SetColors(d, c), c), c), c), c), c)

\* the catch block of loadCustomization: the record stored and applied
FailureRecord_KeepCurrent(current) ==
  IF current = NoCustomization THEN DEFAULT_CUSTOMIZATION ELSE current

FailureRecord(current) == DEFAULT_CUSTOMIZATION

\* how the promise of loadCustomization settles, by the fate of the fetch:
\* the catch block has no throw and the finally block only sets a flag
LoadSettles_Rethrow(fetched) == IF fetched THEN "fulfilled" ELSE "rejected"

LoadSettles(fetched) == "fulfilled"

\* the title and the icon links index.html comes with
IndexTitle == "index.html"

IndexIcon == << "/vite.svg" >>

\* CustomizationProvider at mount: no customization, loading, and the effect
\* has called loadCustomization once
ThemeMount ==
  [customization |-> NoCustomization, loading |-> TRUE, pending |-> 1,
   settled |-> "none", last |-> "none", prev |-> NoCustomization.id]

\* no shade derivation under way
NoShade == [r |-> -1, g |-> -1, b |-> -1]

ShadeIdle == [hex |-> <<>>, k |-> 0, done |-> FALSE, out |-> NoShade]

ThemeAtRest ==
  /\ doc = BlankDoc(<<>>, IndexTitle)
  /\ theme = ThemeMount
  /\ shade = ShadeIdle

\* no hexToRgb call under way and no component mounted
NoWidgets == <<>>

\* the listeners that may subscribe
Listeners == {"l1", "l2"}

NoToastCall == [op |-> "none", id |-> 0, duration |-> 0]

\* new ToastManager(): no toast, no listener, the counter at 0, no timer set
ToastStart ==
  [toasts |-> <<>>, idCounter |-> 0, listeners |-> {}, timers |-> {},
   unsubs |-> {}, heard |-> [l \in Listeners |-> <<>>], last |-> NoToastCall]

\* none of them is in use
WidgetsAtRest == widgets = NoWidgets

----------------------------------------------------------------------------
(* Initial states of the API client *)

\* what an earlier visit can have left in localStorage
InitialStorages ==
  { EmptyStorage,
    [EmptyStorage EXCEPT !["access_token"] = 1],
    [EmptyStorage EXCEPT !["access_token"] = 1, !["refresh_token"] = 1] }

InitWith(stores) ==
  /\ storage \in stores
  /\ pathname \in Paths
  /\ href = NoHref
  /\ reqs = MountReqs(storage)
  /\ nextTok = 2
  /\ user = 0
  /\ loading = MountLoading(storage)
  /\ ThemeAtRest
  /\ WidgetsAtRest

Init == InitWith(InitialStorages)

\* the same visits, after the README's debugging switch
\* localStorage.setItem('debug', 'true') was used in the console
InitDebug == InitWith({setItem(s, "debug", 1) : s \in InitialStorages})

\* the document is (re)loaded at p: a requested navigation commits, or the
\* user reloads; every pending promise of the old document is gone
PageLoad(p) ==
  /\ href # NoHref => p = href
  /\ pathname' = p
  /\ href' = NoHref
  /\ reqs' = MountReqs(storage)
  /\ user' = 0
  /\ loading' = MountLoading(storage)
  /\ UNCHANGED <<storage, nextTok>>
  /\ UNCHANGED themeVars
  /\ UNCHANGED widgetVars

\* client-side route change (react-router navigate / <Navigate>)
Navigate(p) ==
  /\ p # pathname
  /\ pathname' = p
  /\ UNCHANGED <<storage, href, reqs, nextTok, user, loading>>
  /\ UNCHANGED themeVars
  /\ UNCHANGED widgetVars

----------------------------------------------------------------------------
(* Calls through the ApiService instance *)

\* a caller issues a request: api.login, api.register, api.logout (only with a
\* stored refresh token) or any other endpoint method; a page component's call
\* takes the first free slot after slot 1 (slots are only names)
Call(i, kind) ==
  /\ reqs[i].st \in {"idle", "done"}
  /\ kind \in {"data", "login", "register", "logout"}
  /\ kind # "data" => i = 1
  /\ \A j \in 2..(i - 1) : reqs[j].st \notin {"idle", "done"}
  /\ kind = "logout" => getItem(storage, "refresh_token") # 0
  /\ reqs' = [reqs EXCEPT ![i] = NewRequest(kind, storage)]
  /\ UNCHANGED <<storage, pathname, href, nextTok, user, loading>>
  /\ UNCHANGED themeVars
  /\ UNCHANGED widgetVars

\* logout() when no refresh token is stored: no backend call
LogoutLocal ==
  /\ getItem(storage, "refresh_token") = 0
  /\ storage' = ClearTokens(storage)
  /\ user' = 0
  /\ UNCHANGED <<pathname, href, reqs, nextTok, loading>>
  /\ UNCHANGED themeVars
  /\ UNCHANGED widgetVars

\* response interceptor, success handler: the response is passed on
ResponseOk(i) ==
  LET r == reqs[i]
      issues == r.kind \in {"login", "register"}
  IN  /\ r.st = "sending"
      /\ issues => nextTok <= MaxToken
      /\ \E rt \in {0, 1} :
           /\ ~issues => rt = 0
           /\ Settle(i, [r EXCEPT !.got = 200], [attempt |-> r.sends, status |-> 200], storage, href,
                     IF issues THEN nextTok ELSE 0, rt)
      /\ nextTok' = IF issues THEN nextTok + 1 ELSE nextTok
      /\ UNCHANGED pathname
      /\ UNCHANGED themeVars
      /\ UNCHANGED widgetVars

\* response interceptor, error handler, up to its first await or its return
ResponseError(i, status) ==
  LET r == [reqs[i] EXCEPT !.got = status]
      err == [attempt |-> r.sends, status |-> status]
  IN  /\ r.st = "sending"
      /\ status # 200
      /\ IF IsAuthError(status, r.retry)
           THEN LET r1 == [r EXCEPT !.retry = TRUE]
                    refreshToken == getItem(storage, "refresh_token")
                IN  IF refreshToken = 0
                      THEN Settle(i, r1, err, NoRefreshTokenStorage(storage),
                                  "/login", 0, 0)
                      ELSE /\ reqs' = [reqs EXCEPT ![i] = StartRefresh(r1)]
                           /\ UNCHANGED <<storage, href, user, loading>>
           ELSE Settle(i, r, err, storage, href, 0, 0)
      /\ UNCHANGED <<pathname, nextTok>>
      /\ UNCHANGED themeVars
      /\ UNCHANGED widgetVars

\* POST /auth/refresh answered 2xx: store the token and resend through this.api
RefreshOk(i) ==
  LET r == reqs[i]
      access_token == nextTok
      store1 == RefreshedStorage(storage, access_token)
  IN  /\ r.st = "refreshing"
      /\ nextTok <= MaxToken
      /\ storage' = store1
      /\ reqs' = [reqs EXCEPT ![i] = Resend(r, access_token, store1)]
      /\ nextTok' = nextTok + 1
      /\ UNCHANGED <<pathname, href, user, loading>>
      /\ UNCHANGED themeVars
      /\ UNCHANGED widgetVars

\* POST /auth/refresh failed: the catch block
RefreshFail(i, status) ==
  LET r == reqs[i]
  IN  /\ r.st = "refreshing"
      /\ Settle(i, [r EXCEPT !.rst = "failed", !.rgot = status],
                [attempt |-> 0, status |-> status],
                RefreshFailedStorage(storage), RefreshFailedHref(pathname, href),
                0, 0)
      /\ UNCHANGED <<pathname, nextTok>>
      /\ UNCHANGED themeVars
      /\ UNCHANGED widgetVars

Next ==
  \/ \E p \in Paths : PageLoad(p)
  \/ \E p \in Paths : Navigate(p)
  \/ \E i \in Req, kind \in Kinds : Call(i, kind)
  \/ LogoutLocal
  \/ \E i \in Req : ResponseOk(i)
  \/ \E i \in Req, status \in Statuses : ResponseError(i, status)
  \/ \E i \in Req : RefreshOk(i)
  \/ \E i \in Req, status \in RefreshFailures : RefreshFail(i, status)

Spec == Init /\ [][Next]_vars

SpecDebug == InitDebug /\ [][Next]_vars

\* a signed-in page at work: checkAuth has succeeded, a full session is stored,
\* and only page components call the backend
InitRace ==
  /\ storage = [EmptyStorage EXCEPT !["access_token"] = 1, !["refresh_token"] = 1]
  /\ pathname = "/chat"
  /\ href = NoHref
  /\ reqs = [i \in Req |-> IdleReq]
  /\ nextTok = 2
  /\ user = 1
  /\ loading = FALSE
  /\ ThemeAtRest
  /\ WidgetsAtRest

NextRace ==
  \/ \E i \in Req : Call(i, "data")
  \/ \E i \in Req : ResponseOk(i)
  \/ \E i \in Req, status \in Statuses : ResponseError(i, status)
  \/ \E i \in Req : RefreshOk(i)
  \/ \E i \in Req, status \in RefreshFailures : RefreshFail(i, status)

SpecRace == InitRace /\ [][NextRace]_vars

\* the call in slot i moves on: the backend answers it, or answers the
\* refresh call made for it
Progress(i) ==
  \/ ResponseOk(i)
  \/ \E status \in Statuses : ResponseError(i, status)
  \/ RefreshOk(i)
  \/ \E status \in RefreshFailures : RefreshFail(i, status)

\* one document from its load on: AuthProvider mounts and runs checkAuth while
\* page components call the backend; every exchange of the checkAuth call
\* (slot 1 at mount) ends, with an answer or with an error
SpecStart == Init /\ [][NextRace]_vars /\ WF_vars(Progress(1))

----------------------------------------------------------------------------
(* Theme engine: CustomizationProvider *)

\* refreshCustomization (the command palette) calls loadCustomization again,
\* whether or not an earlier load is still waiting for its answer
RefreshCustomization ==
  /\ theme.pending < MaxLoads
  /\ theme' = [theme EXCEPT !.pending = @ + 1]
  /\ UNCHANGED <<doc, shade>>
  /\ UNCHANGED apiVars
  /\ UNCHANGED widgetVars

\* the provider's state when one loadCustomization has run from the answer of
\* its fetch to its end: setCustomization(rec), applyTheme(rec),
\* setLoading(false); the record stored is the record applied, and prev keeps
\* the id of the record it replaces
SettledTheme(t, rec, fetched) ==
  [t EXCEPT !.customization = rec,
            !.loading = FALSE,
            !.pending = @ - 1,
            !.settled = LoadSettles(fetched),
            !.last = IF fetched THEN "ok" ELSE "fail",
            !.prev = t.customization.id]

\* api.getCurrentCustomization() resolved with data: the try block
FetchOk(data) ==
  /\ theme.pending > 0
  /\ theme' = SettledTheme(theme, data, TRUE)
  /\ doc' = applyTheme(doc, data)
  /\ UNCHANGED shade
  /\ UNCHANGED apiVars
  /\ UNCHANGED widgetVars

\* api.getCurrentCustomization() rejected: the catch block
FetchFail ==
  LET rec == FailureRecord(theme.customization)
  IN  /\ theme.pending > 0
      /\ theme' = SettledTheme(theme, rec, FALSE)
      /\ doc' = applyTheme(doc, rec)
      /\ UNCHANGED shade
      /\ UNCHANGED apiVars
      /\ UNCHANGED widgetVars

\* the application starts, signed out, on a page with or without an icon link
InitTheme ==
  /\ storage = EmptyStorage
  /\ pathname = "/login"
  /\ href = NoHref
  /\ reqs = [i \in Req |-> IdleReq]
  /\ nextTok = 2
  /\ user = 0
  /\ loading = FALSE
  /\ doc \in {BlankDoc(<<>>, IndexTitle), BlankDoc(<< IndexIcon >>, IndexTitle)}
  /\ theme = ThemeMount
  /\ shade = ShadeIdle
  /\ WidgetsAtRest

NextTheme ==
  \/ RefreshCustomization
  \/ \E data \in Served : FetchOk(data)
  \/ FetchFail

SpecTheme == InitTheme /\ [][NextTheme]_vars

----------------------------------------------------------------------------
(* Shade derivation on its own *)

\* the colours #abbaaa for hex digits a, b: the red channel takes every value
\* of 0..255, the green and blue channels follow
ShadeInputs ==
  { <<"#", LowerHex[a], LowerHex[b], LowerHex[b], LowerHex[a], LowerHex[a], LowerHex[a]>> :
      a \in 1..16, b \in 1..16 }

\* one iteration of shades.forEach in generateColorShades
DeriveShade ==
  LET rgb == hexToRgb(shade.hex)
  IN  /\ ~shade.done
      /\ rgb.ok
      /\ shade' = [shade EXCEPT !.done = TRUE,
                                !.out = adjustLightness(rgb, shades[shade.k].lightness)]
      /\ UNCHANGED <<doc, theme>>
      /\ UNCHANGED apiVars
      /\ UNCHANGED widgetVars

InitShade ==
  /\ storage = EmptyStorage
  /\ pathname = "/login"
  /\ href = NoHref
  /\ reqs = [i \in Req |-> IdleReq]
  /\ nextTok = 2
  /\ user = 0
  /\ loading = FALSE
  /\ doc = BlankDoc(<<>>, IndexTitle)
  /\ theme = ThemeMount
  /\ shade \in { [hex |-> h, k |-> k, done |-> FALSE, out |-> NoShade] :
                   h \in ShadeInputs, k \in 1..Len(shades) }
  /\ WidgetsAtRest

NextShade == DeriveShade

SpecShade == InitShade /\ [][NextShade]_vars

----------------------------------------------------------------------------
(* hexToRgb on its own *)

\* one character of each kind the regular expression tells apart: the hash, a
\* decimal digit, a lower-case and an upper-case hex letter, any other letter
ParseAlphabet == {"#", "1", "a", "F", "g"}

\* a named colour and a functional notation
NamedRed == <<"r", "e", "d">>

RgbNotation == <<"r", "g", "b", "(", "1", ",", "1", ",", "1", ")">>

\* every string over the alphabet up to the longest length, and the two above
ParseInputs ==
  UNION { [1..n -> ParseAlphabet] : n \in 0..MaxHexLen } \cup {NamedRed, RgbNotation}

\* hexToRgb(hex) is called and returns
ParseHex ==
  /\ ~parse.done
  /\ widgets' = [parse |-> [parse EXCEPT !.done = TRUE, !.out = hexToRgb(parse.hex)]]
  /\ UNCHANGED apiVars
  /\ UNCHANGED themeVars

InitParse ==
  /\ storage = EmptyStorage
  /\ pathname = "/login"
  /\ href = NoHref
  /\ reqs = [i \in Req |-> IdleReq]
  /\ nextTok = 2
  /\ user = 0
  /\ loading = FALSE
  /\ ThemeAtRest
  /\ widgets \in { [parse |-> [hex |-> h, done |-> FALSE, out |-> NoRgb]] : h \in ParseInputs }

NextParse == ParseHex

SpecParse == InitParse /\ [][NextParse]_vars

----------------------------------------------------------------------------
(* ChatPage *)

\* String.prototype.trim over texts of blanks and letters
RECURSIVE trimStart(_)
trimStart(str) ==
  IF Len(str) > 0 /\ str[1] = " " THEN trimStart(Tail(str)) ELSE str

RECURSIVE trimEnd(_)
trimEnd(str) ==
  IF Len(str) > 0 /\ str[Len(str)] = " "
    THEN trimEnd(SubSeq(str, 1, Len(str) - 1))
    ELSE str

trim(str) == trimEnd(trimStart(str))

\* what the user can type: every text of blanks and letters up to the length
ChatTexts == UNION { [1..n -> {" ", "a"}] : n \in 0..MaxInputLen }

\* a suggestion or an example question
ChatSuggestion == <<"a">>

ChatMounted ==
  [mounted |-> TRUE, messages |-> <<>>, input |-> <<>>, loading |-> FALSE,
   inflight |-> 0, last |-> "none"]

UserMessage(content) == [role |-> "user", content |-> content, error |-> FALSE]

\* response.answer, whatever it says
AssistantMessage == [role |-> "assistant", content |-> <<"answer">>, error |-> FALSE]

\* the apology, with metadata.error
ErrorAssistantMessage == [role |-> "assistant", content |-> <<"apology">>, error |-> TRUE]

\* the guard of handleSendMessage: it goes on
CanSend_IgnoresLoading(input, sending) == trim(input) # <<>>

CanSend(input, sending) == ~(trim(input) = <<>> \/ sending)

\* onChange of the text area, which is disabled while loading
TypeInput(text) ==
  /\ chat.mounted
  /\ ~chat.loading
  /\ widgets' = [chat |-> [chat EXCEPT !.input = text]]
  /\ UNCHANGED apiVars
  /\ UNCHANGED themeVars

\* a click on a suggestion or on an example question fills the input
handleSuggestionClick ==
  /\ chat.mounted
  /\ widgets' = [chat |-> [chat EXCEPT !.input = ChatSuggestion]]
  /\ UNCHANGED apiVars
  /\ UNCHANGED themeVars

\* handleSendMessage up to its await: Enter in the text area or the send
\* button; last records whether the call went on or returned at its guard
handleSendMessage ==
  /\ chat.mounted
  /\ Len(chat.messages) < MaxMsgs
  /\ IF CanSend(chat.input, chat.loading)
       THEN widgets' = [chat |-> [chat EXCEPT !.messages = Append(@, UserMessage(trim(chat.input))),
                                 !.input = <<>>,
                                 !.loading = TRUE,
                                 !.inflight = @ + 1,
                                 !.last = "sent"]]
       ELSE widgets' = [chat |-> [chat EXCEPT !.last = "ignored"]]
  /\ UNCHANGED apiVars
  /\ UNCHANGED themeVars

\* api.sendChatMessage resolved: the rest of the try block, then finally
ChatAnswered ==
  /\ chat.mounted
  /\ chat.inflight > 0
  /\ widgets' = [chat |-> [chat EXCEPT !.messages = Append(@, AssistantMessage),
                           !.loading = FALSE,
                           !.inflight = @ - 1]]
  /\ UNCHANGED apiVars
  /\ UNCHANGED themeVars

\* api.sendChatMessage rejected: the catch block, then finally
ChatFailed ==
  /\ chat.mounted
  /\ chat.inflight > 0
  /\ widgets' = [chat |-> [chat EXCEPT !.messages = Append(@, ErrorAssistantMessage),
                           !.loading = FALSE,
                           !.inflight = @ - 1]]
  /\ UNCHANGED apiVars
  /\ UNCHANGED themeVars

\* startNewChat empties the list, whatever is under way
startNewChat ==
  /\ chat.mounted
  /\ chat.messages # <<>>
  /\ widgets' = [chat |-> [chat EXCEPT !.messages = <<>>]]
  /\ UNCHANGED apiVars
  /\ UNCHANGED themeVars

\* a signed-in user on /chat, ChatPage just mounted
SignedInAtRest ==
  /\ storage = [EmptyStorage EXCEPT !["access_token"] = 1, !["refresh_token"] = 1]
  /\ pathname = "/chat"
  /\ href = NoHref
  /\ reqs = [i \in Req |-> IdleReq]
  /\ nextTok = 2
  /\ user = 1
  /\ loading = FALSE
  /\ ThemeAtRest

InitChat ==
  /\ SignedInAtRest
  /\ widgets = [chat |-> ChatMounted]

NextChat ==
  \/ \E text \in ChatTexts : TypeInput(text)
  \/ handleSuggestionClick
  \/ handleSendMessage
  \/ ChatAnswered
  \/ ChatFailed
  \/ startNewChat

SpecChat == InitChat /\ [][NextChat]_vars

----------------------------------------------------------------------------
(* ToastManager: toasts holds the ids of the toasts, n standing for
   `toast-n`; timers, the ids whose setTimeout is pending; unsubs, the
   listeners whose unsubscribe function has been handed out; heard, the
   snapshots each listener was called with by the last call; last, that call *)

ToastIds == 1..MaxToasts

\* 5000 is the default duration of show
Durations == {-1, 0, 5000}

ToastId_Same(counter) == 1

\* `toast-${++this.idCounter}`, given the incremented counter
ToastId(counter) == counter

notify_Everyone(listeners, toasts) == [l \in Listeners |-> <<toasts>>]

\* every listener of the set is called with a copy of the list
notify(listeners, toasts) ==
  [l \in Listeners |-> IF l \in listeners THEN <<toasts>> ELSE <<>>]

\* this.toasts.filter(t => t.id !== id)
WithoutToast(toasts, id) == SelectSeq(toasts, LAMBDA t : t # id)

subscribe(listener) ==
  /\ widgets' = [toast |-> [toast EXCEPT !.listeners = @ \cup {listener},
                             !.unsubs = @ \cup {listener},
                             !.heard = [l \in Listeners |-> <<>>],
                             !.last = [op |-> "subscribe", id |-> 0, duration |-> 0]]]
  /\ UNCHANGED apiVars
  /\ UNCHANGED themeVars

\* the function subscribe returned, called
unsubscribe(listener) ==
  /\ listener \in toast.unsubs
  /\ widgets' = [toast |-> [toast EXCEPT !.listeners = @ \ {listener},
                             !.heard = [l \in Listeners |-> <<>>],
                             !.last = [op |-> "unsubscribe", id |-> 0, duration |-> 0]]]
  /\ UNCHANGED apiVars
  /\ UNCHANGED themeVars

show(duration) ==
  /\ toast.idCounter < MaxToasts
  /\ LET counter == toast.idCounter + 1
         id == ToastId(counter)
         pushed == Append(toast.toasts, id)
     IN widgets' = [toast |-> [toast EXCEPT !.idCounter = counter,
                               !.toasts = pushed,
                               !.heard = notify(toast.listeners, pushed),
                               !.timers = IF duration > 0 THEN @ \cup {id} ELSE @,
                               !.last = [op |-> "show", id |-> id, duration |-> duration]]]
  /\ UNCHANGED apiVars
  /\ UNCHANGED themeVars

\* remove called by the application
remove(id) ==
  /\ LET kept == WithoutToast(toast.toasts, id)
     IN widgets' = [toast |-> [toast EXCEPT !.toasts = kept,
                               !.heard = notify(toast.listeners, kept),
                               !.last = [op |-> "remove", id |-> id, duration |-> 0]]]
  /\ UNCHANGED apiVars
  /\ UNCHANGED themeVars

\* the timeout set by show runs: remove(id)
TimerFires(id) ==
  /\ id \in toast.timers
  /\ LET kept == WithoutToast(toast.toasts, id)
     IN widgets' = [toast |-> [toast EXCEPT !.toasts = kept,
                               !.heard = notify(toast.listeners, kept),
                               !.timers = @ \ {id},
                               !.last = [op |-> "timer", id |-> id, duration |-> 0]]]
  /\ UNCHANGED apiVars
  /\ UNCHANGED themeVars

InitToast ==
  /\ SignedInAtRest
  /\ widgets = [toast |-> ToastStart]

NextToast ==
  \/ \E listener \in Listeners : subscribe(listener)
  \/ \E listener \in Listeners : unsubscribe(listener)
  \/ \E duration \in Durations : show(duration)
  \/ \E id \in ToastIds : remove(id)
  \/ \E id \in ToastIds : TimerFires(id)

SpecToast == InitToast /\ [][NextToast]_vars

\* a pending timeout runs
SpecToastTimers == SpecToast /\ \A id \in ToastIds : WF_vars(TimerFires(id))

----------------------------------------------------------------------------
(* CommandPalette *)

\* an item: its id and the texts the filter looks at (label, description,
\* keywords)
ActionItems ==
  << [id |-> "new-chat", texts |-> {<<"a", "B">>}],
     [id |-> "upload-doc", texts |-> {<<"B">>}] >>

\* the items made of the documents and conversations loadData fetched
LoadedItems == << [id |-> "doc-1", texts |-> {<<"z">>}] >>

SearchTexts == UNION { [1..n -> {" ", "a", "B", "z"}] : n \in 0..MaxSearchLen }

toLowerCase(str) == [k \in 1..Len(str) |-> IF str[k] = "B" THEN "b" ELSE str[k]]

\* String.prototype.includes
includes(str, sub) ==
  \E i \in 1..(Len(str) - Len(sub) + 1) : SubSeq(str, i, i + Len(sub) - 1) = sub

allItems(documents) == IF documents THEN ActionItems \o LoadedItems ELSE ActionItems

filteredItems(search, documents) ==
  IF trim(search) = <<>>
    THEN allItems(documents)
    ELSE SelectSeq(allItems(documents),
                   LAMBDA item : \E text \in item.texts :
                                   includes(toLowerCase(text), toLowerCase(search)))

\* filteredItems[selectedIndex]?.action(): the id of the item whose action
\* runs, "nothing" when there is no item at the index
ItemAt(items, index) ==
  IF index + 1 \in 1..Len(items) THEN items[index + 1].id ELSE "nothing"

PaletteMounted ==
  [mounted |-> TRUE, isOpen |-> FALSE, search |-> <<>>, selectedIndex |-> 0,
   documents |-> FALSE, loading |-> FALSE, invoked |-> "none"]

\* isOpen becomes true: the effect calls loadData and resets search and index
OpenPalette ==
  /\ palette.mounted
  /\ ~palette.isOpen
  /\ widgets' = [palette |-> [palette EXCEPT !.isOpen = TRUE, !.search = <<>>,
                                 !.selectedIndex = 0, !.loading = TRUE,
                                 !.invoked = "none"]]
  /\ UNCHANGED apiVars
  /\ UNCHANGED themeVars

\* loadData got the documents and conversations
DataLoaded ==
  /\ palette.mounted
  /\ palette.loading
  /\ widgets' = [palette |-> [palette EXCEPT !.documents = TRUE, !.loading = FALSE]]
  /\ UNCHANGED apiVars
  /\ UNCHANGED themeVars

\* loadData failed: the lists stay as they were
DataFailed ==
  /\ palette.mounted
  /\ palette.loading
  /\ widgets' = [palette |-> [palette EXCEPT !.loading = FALSE]]
  /\ UNCHANGED apiVars
  /\ UNCHANGED themeVars

ArrowDown ==
  /\ palette.mounted
  /\ palette.isOpen
  /\ LET items == filteredItems(palette.search, palette.documents)
     IN widgets' = [palette |-> [palette EXCEPT
                      !.selectedIndex = MathMin(@ + 1, Len(items) - 1)]]
  /\ UNCHANGED apiVars
  /\ UNCHANGED themeVars

ArrowUp ==
  /\ palette.mounted
  /\ palette.isOpen
  /\ widgets' = [palette |-> [palette EXCEPT !.selectedIndex = MathMax(@ - 1, 0)]]
  /\ UNCHANGED apiVars
  /\ UNCHANGED themeVars

\* Enter runs the action of the item at the index, and every action ends
\* with onClose()
Enter ==
  /\ palette.mounted
  /\ palette.isOpen
  /\ LET items == filteredItems(palette.search, palette.documents)
         id == ItemAt(items, palette.selectedIndex)
     IN widgets' = [palette |-> [palette EXCEPT !.invoked = id,
                                   !.isOpen = (id = "nothing")]]
  /\ UNCHANGED apiVars
  /\ UNCHANGED themeVars

\* Escape, the backdrop or the close button: onClose()
Escape ==
  /\ palette.mounted
  /\ palette.isOpen
  /\ widgets' = [palette |-> [palette EXCEPT !.isOpen = FALSE]]
  /\ UNCHANGED apiVars
  /\ UNCHANGED themeVars

\* onChange of the search box
SearchChange(text) ==
  /\ palette.mounted
  /\ palette.isOpen
  /\ widgets' = [palette |-> [palette EXCEPT !.search = text, !.selectedIndex = 0]]
  /\ UNCHANGED apiVars
  /\ UNCHANGED themeVars

InitPalette ==
  /\ SignedInAtRest
  /\ widgets = [palette |-> PaletteMounted]

NextPalette ==
  \/ OpenPalette
  \/ DataLoaded
  \/ DataFailed
  \/ ArrowDown
  \/ ArrowUp
  \/ Enter
  \/ Escape
  \/ \E text \in SearchTexts : SearchChange(text)

SpecPalette == InitPalette /\ [][NextPalette]_vars

----------------------------------------------------------------------------
(* UploadModal: pending tells that api.uploadDocument is awaited; tickers
   counts the intervals set by handleUpload and not cleared *)

UploadMounted ==
  [mounted |-> TRUE, file |-> FALSE, uploading |-> FALSE, progress |-> 0,
   error |-> "none", success |-> FALSE, pending |-> FALSE, tickers |-> 0,
   uploads |-> 0]

\* handleFileChange with a file that passes the size and type tests
handleFileChange ==
  /\ upload.mounted
  /\ ~upload.uploading
  /\ widgets' = [upload |-> [upload EXCEPT !.file = TRUE, !.error = "none"]]
  /\ UNCHANGED apiVars
  /\ UNCHANGED themeVars

\* handleFileChange with a file that is too large or of another type
RejectFile ==
  /\ upload.mounted
  /\ ~upload.uploading
  /\ widgets' = [upload |-> [upload EXCEPT !.error = "file"]]
  /\ UNCHANGED apiVars
  /\ UNCHANGED themeVars

\* the button that takes the chosen file away
ClearFile ==
  /\ upload.mounted
  /\ upload.file /\ ~upload.uploading
  /\ widgets' = [upload |-> [upload EXCEPT !.file = FALSE]]
  /\ UNCHANGED apiVars
  /\ UNCHANGED themeVars

\* handleUpload up to its await; the button is disabled without a file,
\* while uploading and after success
handleUpload ==
  /\ upload.mounted
  /\ upload.uploads < MaxUploads
  /\ upload.file /\ ~upload.uploading /\ ~upload.success
  /\ widgets' = [upload |-> [upload EXCEPT !.uploading = TRUE,
                               !.error = "none",
                               !.progress = 0,
                               !.tickers = @ + 1,
                               !.pending = TRUE,
                               !.uploads = @ + 1]]
  /\ UNCHANGED apiVars
  /\ UNCHANGED themeVars

\* a progress interval fires
Tick ==
  /\ upload.mounted
  /\ upload.tickers > 0
  /\ widgets' = [upload |-> [upload EXCEPT !.progress = MathMin(@ + 10, 90)]]
  /\ UNCHANGED apiVars
  /\ UNCHANGED themeVars

\* api.uploadDocument resolved: the rest of the try block, then finally
UploadOk ==
  /\ upload.mounted
  /\ upload.pending
  /\ widgets' = [upload |-> [upload EXCEPT !.tickers = @ - 1,
                               !.progress = 100,
                               !.success = TRUE,
                               !.uploading = FALSE,
                               !.pending = FALSE]]
  /\ UNCHANGED apiVars
  /\ UNCHANGED themeVars

\* api.uploadDocument rejected: the catch block, then finally
UploadFail ==
  /\ upload.mounted
  /\ upload.pending
  /\ widgets' = [upload |-> [upload EXCEPT !.error = "upload",
                               !.progress = 0,
                               !.uploading = FALSE,
                               !.pending = FALSE]]
  /\ UNCHANGED apiVars
  /\ UNCHANGED themeVars

\* the modal is closed (Cancel, the close button, or onSuccess after the
\* upload) and opened again: a new component with the initial state
Reopen ==
  /\ upload.mounted
  /\ ~upload.uploading
  /\ upload # UploadMounted
  /\ widgets' = [upload |-> UploadMounted]
  /\ UNCHANGED apiVars
  /\ UNCHANGED themeVars

InitUpload ==
  /\ SignedInAtRest
  /\ widgets = [upload |-> UploadMounted]

NextUpload ==
  \/ handleFileChange
  \/ RejectFile
  \/ ClearFile
  \/ handleUpload
  \/ Tick
  \/ UploadOk
  \/ UploadFail
  \/ Reopen

\* an interval that is set keeps firing
SpecUpload == InitUpload /\ [][NextUpload]_vars /\ WF_vars(Tick)

TypeOK ==
  /\ storage \in [Keys -> 0..MaxToken]
  /\ pathname \in Paths
  /\ href \in {NoHref, "/login"}
  /\ user \in {0, 1}
  /\ loading \in BOOLEAN
  /\ nextTok \in 2..(MaxToken + 1)

----------------------------------------------------------------------------
(* Steps of one request, read off a pair of states *)

\* request i, on the wire, gets an answer of status s in this step
Answered(i, s) ==
  /\ reqs[i].st = "sending"
  /\ reqs'[i] # reqs[i]
  /\ reqs'[i].got = s
  /\ reqs'[i].sends >= reqs[i].sends

\* the refresh call of request i is answered in this step
RefreshSucceeded(i) == reqs[i].st = "refreshing" /\ reqs'[i].rgot = 200

RefreshFailed(i) == reqs[i].st = "refreshing" /\ reqs'[i].rgot \in RefreshFailures

\* request i goes on the wire in this step (first send or resend)
Sent(i) == reqs'[i].st = "sending" /\ reqs'[i] # reqs[i]

----------------------------------------------------------------------------
(* Properties *)

\* C1: when the refresh call made for a request that got a 401 succeeds, the
\* new access token is stored, the request goes out a second time carrying
\* that token, and what the caller is handed is the outcome of that second
\* send (its response or its error), nothing else.
C1_RefreshThenResend ==
  [][\A i \in Req :
       /\ RefreshSucceeded(i) =>
            /\ getItem(storage', "access_token") = nextTok
            /\ reqs'[i].st = "sending"
            /\ reqs[i].sends = 1 /\ reqs'[i].sends = 2
            /\ reqs'[i].auth = nextTok
            /\ reqs'[i].result = NoResult
       /\ (reqs[i].rst = "ok" /\ \E s \in Statuses : Answered(i, s)) =>
            /\ reqs'[i].st = "done"
            /\ reqs'[i].sends = 2
            /\ reqs'[i].result = [attempt |-> 2, status |-> reqs'[i].got]
    ]_vars

C1_Witness ==
  \E i \in Req :
    /\ reqs[i].st = "done" /\ reqs[i].rst = "ok"
    /\ reqs[i].result = [attempt |-> 2, status |-> 200]
    /\ getItem(storage, "access_token") > 1

\* C2: a request already marked retried that gets a second 401 settles with
\* that 401 as its error: it is not sent again and no refresh call is made for
\* it; hence no request goes out more than twice or refreshes more than once.
C2_AtMostOneRetry ==
  [][\A i \in Req :
       /\ reqs'[i].sends <= 2
       /\ reqs'[i].refreshes <= 1
       /\ (reqs[i].retry /\ Answered(i, 401)) =>
            /\ reqs'[i].st = "done"
            /\ reqs'[i].result = [attempt |-> 2, status |-> 401]
            /\ reqs'[i].sends = reqs[i].sends
            /\ reqs'[i].refreshes = reqs[i].refreshes
    ]_vars

C2_Witness ==
  \E i \in Req :
    /\ reqs[i].st = "done" /\ reqs[i].retry
    /\ reqs[i].result = [attempt |-> 2, status |-> 401]
    /\ reqs[i].sends = 2 /\ reqs[i].refreshes = 1

\* C3: a first 401 with no refresh token stored: the session entries are gone
\* afterwards, a navigation to /login is requested, no refresh call is made,
\* the request is not sent again and the caller gets the 401 itself.
C3_NoRefreshToken ==
  [][\A i \in Req :
       (/\ ~reqs[i].retry
        /\ getItem(storage, "refresh_token") = 0
        /\ Answered(i, 401)) =>
            /\ getItem(storage', "access_token") = 0
            /\ getItem(storage', "refresh_token") = 0
            /\ href' = "/login"
            /\ reqs'[i].refreshes = 0
            /\ reqs'[i].sends = 1
            /\ reqs'[i].st = "done"
            /\ reqs'[i].result = [attempt |-> 1, status |-> 401]
    ]_vars

C3_Witness ==
  \E i \in Req :
    /\ reqs[i].st = "done" /\ reqs[i].kind = "data"
    /\ reqs[i].result = [attempt |-> 1, status |-> 401]
    /\ reqs[i].retry /\ reqs[i].refreshes = 0
    /\ href = "/login"
    /\ getItem(storage, "access_token") = 0

\* C4: a failed refresh call (non-2xx or no response): both tokens are removed,
\* a navigation to /login is requested unless the document is the login page,
\* the request is not sent again and the caller gets the error of the refresh
\* call, not the 401 of the request.
C4_RefreshFailure ==
  [][\A i \in Req :
       RefreshFailed(i) =>
            /\ getItem(storage', "access_token") = 0
            /\ getItem(storage', "refresh_token") = 0
            /\ href' = IF pathname = "/login" THEN href ELSE "/login"
            /\ reqs'[i].st = "done"
            /\ reqs'[i].sends = 1
            /\ reqs'[i].result = [attempt |-> 0, status |-> reqs'[i].rgot]
    ]_vars

C4_Witness ==
  \E i \in Req :
    /\ reqs[i].st = "done" /\ reqs[i].rst = "failed"
    /\ reqs[i].got = 401
    /\ reqs[i].result = [attempt |-> 0, status |-> 0]
    /\ pathname = "/login" /\ href = NoHref

\* C5: every request that goes out through the client carries as its
\* Authorization header the access token stored at that moment, and carries
\* none when no access token is stored.
C5_BearerIffStored ==
  [][\A i \in Req : Sent(i) => reqs'[i].auth = getItem(storage', "access_token")]_vars

C5_Witness ==
  /\ \E i \in Req : reqs[i].st = "sending" /\ reqs[i].sends = 1 /\ reqs[i].auth = 0
  /\ \E i \in Req : reqs[i].st = "sending" /\ reqs[i].sends = 2 /\ reqs[i].auth # 0

\* C6: the steps of one request are sequential: it goes out a second time only
\* in the step in which its refresh call succeeds, so never while that call is
\* pending and never once it has failed.
C6_ResendOnlyAfterRefresh ==
  [][\A i \in Req :
       /\ (reqs[i].st \in {"sending", "refreshing"} /\ reqs'[i].sends > reqs[i].sends) =>
            /\ reqs[i].st = "refreshing" /\ reqs[i].rst = "pending"
            /\ reqs'[i].rst = "ok"
       /\ reqs'[i].rst = "pending" => (reqs'[i].st = "refreshing" /\ reqs'[i].sends = 1)
       /\ reqs'[i].rst = "failed" => (reqs'[i].st = "done" /\ reqs'[i].sends = 1)
    ]_vars

C6_Witness ==
  /\ \E i \in Req : reqs[i].st = "sending" /\ reqs[i].sends = 2 /\ reqs[i].rst = "ok"
  /\ \E i \in Req : reqs[i].st = "done" /\ reqs[i].rst = "failed"

AuthPathStep(i) ==
  \/ ~reqs[i].retry /\ Answered(i, 401)
  \/ RefreshSucceeded(i)
  \/ RefreshFailed(i)

\* C9: the 401 path touches nothing but the two session entries of
\* localStorage and the requested navigation: every other stored key keeps its
\* value in every branch.
C9_OnlySessionKeysTouched ==
  [][\A i \in Req :
       AuthPathStep(i) =>
         \A k \in Keys \ {"access_token", "refresh_token"} : storage'[k] = storage[k]
    ]_vars

\* the session entries are deleted / the access token is written in this step
SessionDeleted ==
  \E k \in {"access_token", "refresh_token"} : storage[k] # 0 /\ storage'[k] = 0

AccessWritten ==
  /\ getItem(storage', "access_token") # 0
  /\ getItem(storage', "access_token") # getItem(storage, "access_token")

\* logout() finishes in this step, with or without its backend call
LogoutStep ==
  \/ LogoutLocal
  \/ \E i \in Req : reqs[i].kind = "logout" /\ \E s \in Statuses : Answered(i, s)

\* an unrecoverable refresh failure happens in this step
UnrecoverableStep ==
  \E i \in Req :
    \/ /\ ~reqs[i].retry
       /\ getItem(storage, "refresh_token") = 0
       /\ Answered(i, 401)
    \/ RefreshFailed(i)

\* a login, a registration or a refresh succeeds in this step
TokenIssuedStep ==
  \E i \in Req :
    \/ reqs[i].kind \in {"login", "register"} /\ Answered(i, 200)
    \/ RefreshSucceeded(i)

\* C10: the session entries are deleted only by logout or by an unrecoverable
\* refresh failure, and the access token is written only by a successful
\* login, registration or refresh; no other event removes or changes them.
C10_SessionLifecycle ==
  [][/\ SessionDeleted => (LogoutStep \/ UnrecoverableStep)
     /\ AccessWritten => TokenIssuedStep
    ]_vars

\* C11: every request whose first 401 arrives while a refresh token is stored
\* makes its own call to the refresh endpoint, whatever the other requests are
\* doing (also while their refresh calls are pending): N such requests make N
\* refresh calls, nothing is shared or held back.
C11_RefreshPerRequest ==
  [][\A i \in Req :
       (/\ ~reqs[i].retry
        /\ getItem(storage, "refresh_token") # 0
        /\ Answered(i, 401)) =>
            /\ reqs'[i].st = "refreshing"
            /\ reqs'[i].rst = "pending"
            /\ reqs'[i].refreshes = reqs[i].refreshes + 1
            /\ \A j \in Req \ {i} : reqs'[j] = reqs[j]
            /\ storage' = storage
    ]_vars

C11_Witness ==
  /\ \A i \in Req : reqs[i].st = "refreshing" /\ reqs[i].refreshes = 1
  /\ Cardinality({i \in Req : reqs[i].rst = "pending"}) = MaxReq

\* C12: racing recoveries are safe under last-write-wins: once no refresh call
\* is pending any more, the session is either fully cleared or holds the
\* newest refreshed access token together with a refresh token.
C12_LastWriteWinsSafe ==
  (\A i \in Req : reqs[i].st # "refreshing") =>
     \/ /\ getItem(storage, "access_token") = 0
        /\ getItem(storage, "refresh_token") = 0
     \/ /\ getItem(storage, "access_token") = nextTok - 1
        /\ getItem(storage, "refresh_token") # 0

\* request i is issued in this step
IssuedNow(i) == reqs[i].st \in {"idle", "done"} /\ reqs'[i].st = "sending"

\* some request has recovered from a 401: refreshed, resent, answered 200
Recovered ==
  \E j \in Req :
    /\ reqs[j].st = "done" /\ reqs[j].rst = "ok"
    /\ reqs[j].result = [attempt |-> 2, status |-> 200]

----------------------------------------------------------------------------
(* Steps of the theme engine, read off a pair of states *)

\* one loadCustomization ends in this step
LoadSettled == theme'.pending < theme.pending

\* ... and its fetch had rejected
FetchFailedStep == LoadSettled /\ theme'.last = "fail"

\* the style variables applyTheme writes whatever the record holds, as the
\* record rec gives them
UnconditionalFrom(rec) ==
  << [n \in ColorNames |-> rec.colors[n]],
     rec.typography.font_size_base, rec.typography.font_size_heading,
     rec.layout.border_radius, rec.layout.spacing_unit >>

\* the same variables, as the document d has them
Unconditional(d) ==
  << d.colors, d.fontSizeBase, d.fontSizeHeading, d.borderRadius, d.spacingUnit >>

\* what applyTheme writes only when the record supplies a value
Guarded(d) == << d.fontFamily, d.bodyFont, d.links, d.title >>

\* what applyTheme(rec) alone produces, on a document nothing was applied to
Fresh(rec) == applyTheme(BlankDoc(<<>>, ""), rec)

\* every style variable but the font family is set
StyleSetButFont(d) ==
  /\ \A n \in ColorNames : d.colors[n] # <<>>
  /\ d.fontSizeBase # "" /\ d.fontSizeHeading # ""
  /\ d.borderRadius # "" /\ d.spacingUnit # ""
  /\ d.primaryRgb # <<>>
  /\ \A n \in BaseNames : Len(d.shades[n]) = Len(shades)

\* the ramp derived from a parseable colour
RampOf(rgb) == [k \in 1..Len(shades) |-> adjustLightness(rgb, shades[k].lightness)]

----------------------------------------------------------------------------
(* C14 *)

\* C14: loadCustomization never throws to its caller: when the fetch of the
\* current customization fails, the fixed default record is stored as the
\* current customization and applied, the loading flag ends false, and the
\* promise of the load is fulfilled, not rejected.
C14_LoadAbsorbsFailure ==
  [][FetchFailedStep =>
       /\ theme'.customization = DEFAULT_CUSTOMIZATION
       /\ theme'.customization = DEFAULT_CUSTOMIZATION
       /\ doc' = applyTheme(doc, DEFAULT_CUSTOMIZATION)
       /\ theme'.loading = FALSE
       /\ theme'.settled = "fulfilled"
    ]_vars

C14_Witness ==
  /\ theme.last = "fail"
  /\ theme.settled = "fulfilled"
  /\ theme.customization = DEFAULT_CUSTOMIZATION
  /\ theme.loading = FALSE
  /\ doc.colors["primary"] = Sky

----------------------------------------------------------------------------
(* C15 *)

\* C15, as stated: after every customization fetch failure apply was called
\* with the fixed default record and no style variable of the theme (colours,
\* font family, font sizes, border radius, spacing unit, primary RGB, shade
\* ramps) is left unset.
C15_NoVariableUnset ==
  [][FetchFailedStep =>
       /\ theme'.customization = DEFAULT_CUSTOMIZATION
       /\ StyleSetButFont(doc')
       /\ doc'.fontFamily # ""
    ]_vars

\* C15, amended: after every customization fetch failure apply was called
\* with the fixed default record and the colours, font sizes, border radius,
\* spacing unit, primary RGB and shade ramps are all set; the font family is
\* left as it was, so it is unset unless an earlier record supplied one.
C15_AllButFontFamilySet ==
  [][FetchFailedStep =>
       /\ theme'.customization = DEFAULT_CUSTOMIZATION
       /\ StyleSetButFont(doc')
       /\ doc'.fontFamily = doc.fontFamily
       /\ (theme.customization = NoCustomization => doc'.fontFamily = "")
    ]_vars

C15_Witness ==
  /\ theme.last = "fail"
  /\ theme.prev = NoCustomization.id
  /\ theme.customization = DEFAULT_CUSTOMIZATION
  /\ StyleSetButFont(doc)
  /\ doc.fontFamily = ""

----------------------------------------------------------------------------
(* C16 *)

\* C16, as stated: whenever a customization fetch rejects, the applied theme
\* afterwards exactly equals the built-in default record's values (the default
\* has no font family), after any history of earlier loads.
C16_ExactlyDefault ==
  [][FetchFailedStep =>
       /\ Unconditional(doc') = UnconditionalFrom(DEFAULT_CUSTOMIZATION)
       /\ doc'.primaryRgb = Fresh(DEFAULT_CUSTOMIZATION).primaryRgb
       /\ doc'.shades = Fresh(DEFAULT_CUSTOMIZATION).shades
       /\ doc'.fontFamily = DEFAULT_CUSTOMIZATION.typography.font_family
       /\ doc'.bodyFont = DEFAULT_CUSTOMIZATION.typography.font_family
    ]_vars

\* C16, amended: whenever a customization fetch rejects, the colours, font
\* sizes, border radius, spacing unit, primary RGB and shade ramps afterwards
\* equal the built-in default record's values; the font family, the body
\* font, the icon link and the document title keep what earlier loads left,
\* so the whole theme equals the default only when no earlier record supplied
\* one of them.
C16_DefaultButGuarded ==
  [][FetchFailedStep =>
       /\ Unconditional(doc') = UnconditionalFrom(DEFAULT_CUSTOMIZATION)
       /\ doc'.primaryRgb = Fresh(DEFAULT_CUSTOMIZATION).primaryRgb
       /\ doc'.primaryRgb = <<Num(14), Num(165), Num(233)>>
       /\ doc'.shades = Fresh(DEFAULT_CUSTOMIZATION).shades
       /\ Guarded(doc') = Guarded(doc)
       /\ (theme.customization = NoCustomization => doc'.fontFamily = "" /\ doc'.bodyFont = "")
    ]_vars

C16_Witness ==
  /\ theme.last = "fail"
  /\ theme.prev = CustomA.id
  /\ theme.customization = DEFAULT_CUSTOMIZATION
  /\ Unconditional(doc) = UnconditionalFrom(DEFAULT_CUSTOMIZATION)
  /\ doc.fontFamily = "Inter"
  /\ doc.title = "Acme"

----------------------------------------------------------------------------
(* C17 *)

\* C17, as stated: after apply(r2) following apply(r1), every theme variable
\* has the value apply(r2) alone would produce, except only the font family,
\* the favicon and the document title, which keep the old value when r2 does
\* not supply one.
C17_OnlyThreeGuarded ==
  [][(LoadSettled /\ theme.customization # NoCustomization) =>
       LET r2 == theme'.customization
       IN  /\ Unconditional(doc') = UnconditionalFrom(r2)
           /\ doc'.primaryRgb = Fresh(r2).primaryRgb
           /\ doc'.shades = Fresh(r2).shades
           /\ IF r2.typography.font_family # ""
                THEN doc'.fontFamily = r2.typography.font_family
                ELSE doc'.fontFamily = doc.fontFamily
           /\ IF r2.favicon_url # <<>>
                THEN doc'.links[1] = fullFaviconUrl(r2.favicon_url)
                ELSE doc'.links = doc.links
           /\ IF r2.branding.app_name # ""
                THEN doc'.title = r2.branding.app_name
                ELSE doc'.title = doc.title
    ]_vars

\* C17, amended: after apply(r2) following apply(r1), the colours, font
\* sizes, border radius and spacing unit have the values of r2; the font
\* family (with the body font), the favicon and the document title, and also
\* the primary RGB and each shade ramp, have the value apply(r2) alone would
\* produce when apply(r2) alone sets them, and keep the old value otherwise.
C17_OverwriteButGuarded ==
  [][(LoadSettled /\ theme.customization # NoCustomization) =>
       LET r2 == theme'.customization
       IN  /\ Unconditional(doc') = UnconditionalFrom(r2)
           /\ IF Fresh(r2).primaryRgb # <<>>
                THEN doc'.primaryRgb = Fresh(r2).primaryRgb
                ELSE doc'.primaryRgb = doc.primaryRgb
           /\ \A n \in BaseNames :
                IF Fresh(r2).shades[n] # <<>>
                  THEN doc'.shades[n] = Fresh(r2).shades[n]
                  ELSE doc'.shades[n] = doc.shades[n]
           /\ IF r2.typography.font_family # ""
                THEN /\ doc'.fontFamily = r2.typography.font_family
                     /\ doc'.bodyFont = r2.typography.font_family
                ELSE /\ doc'.fontFamily = doc.fontFamily
                     /\ doc'.bodyFont = doc.bodyFont
           /\ IF r2.favicon_url # <<>>
                THEN /\ doc'.links[1] = fullFaviconUrl(r2.favicon_url)
                     /\ Len(doc'.links) = MathMax(1, Len(doc.links))
                ELSE doc'.links = doc.links
           /\ IF r2.branding.app_name # ""
                THEN doc'.title = r2.branding.app_name
                ELSE doc'.title = doc.title
    ]_vars

C17_Witness ==
  /\ theme.prev = CustomA.id
  /\ theme.customization = CustomB
  /\ Unconditional(doc) = UnconditionalFrom(CustomB)
  /\ doc.shades["primary"] = Fresh(CustomA).shades["primary"]
  /\ doc.fontFamily = "Inter"

----------------------------------------------------------------------------
(* C18 *)

\* C18: apply is idempotent: when the record applied in a step is the record
\* applied last, the step leaves every style variable, the body font, the
\* icon links and the document title exactly as the first application left
\* them.
C18_ApplyIdempotent ==
  [][(LoadSettled /\ theme'.customization = theme.customization) => doc' = doc]_vars

C18_Witness ==
  /\ theme.customization = CustomA
  /\ theme.prev = CustomA.id
  /\ doc.links = << API_BASE \o CustomA.favicon_url >>
  /\ doc.title = "Acme"

----------------------------------------------------------------------------
(* C19 *)

\* C19: an unparseable colour string in primary, secondary or accent makes
\* apply skip the shade ramp of that colour only: after every apply, each
\* base colour variable holds the raw string of the record, the ramp of each
\* parseable base colour is the one derived from it, and the ramp of an
\* unparseable base colour is left as it was.
C19_SkipThatColourOnly ==
  [][LoadSettled =>
       \A n \in BaseNames :
         LET rgb == hexToRgb(theme'.customization.colors[n])
         IN  /\ doc'.colors[n] = theme'.customization.colors[n]
             /\ IF rgb.ok
                  THEN doc'.shades[n] = RampOf(rgb)
                  ELSE doc'.shades[n] = doc.shades[n]
    ]_vars

----------------------------------------------------------------------------
(* C20 *)

\* C20: shade derivation is deterministic and bounds-safe: for every valid
\* 6-hex-digit base colour and every one of the ten factors, each output
\* channel is an integer in [0,255], and deriving again from the same input
\* gives the same output.
C20_ShadeInBounds ==
  shade.done =>
    /\ \A ch \in {shade.out.r, shade.out.g, shade.out.b} :
         IsWhole(ch) /\ 0 <= ch /\ ch <= Num(255)
    /\ shade.out = adjustLightness(hexToRgb(shade.hex), shades[shade.k].lightness)

\* #0ee000 at shade 50: 14 -> round(242.95) = 243, 224 -> round(253.45) = 253,
\* 0 -> round(242.25) = 242
C20_Witness ==
  /\ shade.done
  /\ shade.hex = <<"#", "0", "e", "e", "0", "0", "0">>
  /\ shades[shade.k].name = "50"
  /\ shade.out = [r |-> Num(243), g |-> Num(253), b |-> Num(242)]

----------------------------------------------------------------------------
(* C21 *)

\* the rounding of the real number x / 100 to the nearest integer, a half
\* going up
RoundHundredths(x) == (x + 50) \div 100

\* round(c + (255 - c) * f) for f > 0, round(c * (1 + f)) for f < 0 and c for
\* f = 0, in real arithmetic; f is the lightness in hundredths
RealShade(c, lightness) ==
  IF lightness > 0 THEN RoundHundredths(100 * c + (255 - c) * lightness)
  ELSE IF lightness < 0 THEN RoundHundredths(c * (100 + lightness))
  ELSE c

\* the channels of the colour whose shade is derived, as integers
ShadeChannels == hexToRgb(shade.hex)

\* C21, as stated: for every channel value c and every defined factor f the
\* derived channel equals round(c + (255 - c) * f) when f > 0,
\* round(c * (1 + f)) when f < 0 and c when f = 0; the red channel 14 gives 244
\* at shade 50 and 8 at shade 900.
C21_RealRounding ==
  shade.done =>
    LET f == shades[shade.k].lightness
        in == ShadeChannels
    IN  /\ shade.out.r = Num(RealShade(in.r \div Scale, f))
        /\ shade.out.g = Num(RealShade(in.g \div Scale, f))
        /\ shade.out.b = Num(RealShade(in.b \div Scale, f))
        /\ (in.r = Num(14) /\ shades[shade.k].name = "50") => shade.out.r = Num(244)
        /\ (in.r = Num(14) /\ shades[shade.k].name = "900") => shade.out.r = Num(8)

\* what the code derives: the real rounding, except at shade 800 for the
\* channel values 45, 85, 165 and 175, which come out one lower
CodeShade(c, lightness) ==
  IF lightness = -30 /\ c \in {45, 85, 165, 175}
    THEN RealShade(c, lightness) - 1
    ELSE RealShade(c, lightness)

\* C21, amended: the derived channel equals round(c + (255 - c) * f) when
\* f > 0, round(c * (1 + f)) when f < 0 and c when f = 0, as evaluated in
\* double precision: this is the real rounding except for c in {45, 85, 165,
\* 175} at shade 800, which give 31, 59, 115 and 122, one less; the red
\* channel 14 gives 243 at shade 50 (round(242.95)) and 8 at shade 900.
C21_DoubleRounding ==
  shade.done =>
    LET f == shades[shade.k].lightness
        in == ShadeChannels
    IN  /\ shade.out.r = Num(CodeShade(in.r \div Scale, f))
        /\ shade.out.g = Num(CodeShade(in.g \div Scale, f))
        /\ shade.out.b = Num(CodeShade(in.b \div Scale, f))
        /\ (f = 0) => shade.out = [r |-> in.r, g |-> in.g, b |-> in.b]
        /\ (in.r = Num(14) /\ shades[shade.k].name = "50") => shade.out.r = Num(243)
        /\ (in.r = Num(14) /\ shades[shade.k].name = "900") => shade.out.r = Num(8)
        /\ (in.r = Num(45) /\ shades[shade.k].name = "800") => shade.out.r = Num(31)

\* #2dd222 at shade 800: 45 * 0.7 is 31.499999999999996 in doubles
C21_Witness ==
  /\ shade.done
  /\ shade.hex = <<"#", "2", "d", "d", "2", "2", "2">>
  /\ shades[shade.k].name = "800"
  /\ shade.out.r = Num(31)

----------------------------------------------------------------------------
(* C22 *)

\* the hexadecimal digits, either case, and their values
HexDigitValue ==
  ("0" :> 0) @@ ("1" :> 1) @@ ("2" :> 2) @@ ("3" :> 3) @@ ("4" :> 4) @@
  ("5" :> 5) @@ ("6" :> 6) @@ ("7" :> 7) @@ ("8" :> 8) @@ ("9" :> 9) @@
  ("a" :> 10) @@ ("b" :> 11) @@ ("c" :> 12) @@ ("d" :> 13) @@ ("e" :> 14) @@
  ("f" :> 15) @@ ("A" :> 10) @@ ("B" :> 11) @@ ("C" :> 12) @@ ("D" :> 13) @@
  ("E" :> 14) @@ ("F" :> 15)

\* exactly six hexadecimal digits
SixHexDigits(str) == Len(str) = 6 /\ \A k \in 1..6 : str[k] \in DOMAIN HexDigitValue

\* an optional leading '#', then exactly six hexadecimal digits
WellFormedHex(str) ==
  \/ SixHexDigits(str)
  \/ Len(str) = 7 /\ str[1] = "#" /\ SixHexDigits(Tail(str))

\* the value of the n-th two-digit group of a well-formed string
ChannelValue(str, n) ==
  LET digits == IF Len(str) = 7 THEN Tail(str) ELSE str
  IN  16 * HexDigitValue[digits[2 * n - 1]] + HexDigitValue[digits[2 * n]]

\* C22: hexToRgb accepts exactly the strings made of an optional leading '#'
\* followed by exactly six hexadecimal digits of either case, and returns the
\* values of the three two-digit groups; every other string (3-digit
\* shorthand, 5 or 7 digits, named colours, rgb()) gives the null result.
C22_HexParsing ==
  parse.done =>
    IF WellFormedHex(parse.hex)
      THEN parse.out = [ok |-> TRUE,
                        r |-> Num(ChannelValue(parse.hex, 1)),
                        g |-> Num(ChannelValue(parse.hex, 2)),
                        b |-> Num(ChannelValue(parse.hex, 3))]
      ELSE parse.out = NoRgb

\* '1aFFa1' without the hash: 26, 255, 161
C22_Witness ==
  /\ parse.done
  /\ parse.hex = <<"1", "a", "F", "F", "a", "1">>
  /\ parse.out = [ok |-> TRUE, r |-> Num(26), g |-> Num(255), b |-> Num(161)]

\* a seven-digit string is rejected
C22_WitnessRejected ==
  /\ parse.done
  /\ parse.hex = <<"1", "1", "1", "1", "1", "1", "1">>
  /\ parse.out = NoRgb

----------------------------------------------------------------------------
(* C23 *)

\* logout() has called api.logout and awaits it
LogoutInFlight == reqs[1].kind = "logout" /\ reqs[1].st \in {"sending", "refreshing"}

\* api.logout is called in this step
LogoutIssued ==
  /\ reqs[1].st \in {"idle", "done"}
  /\ reqs'[1].kind = "logout"
  /\ reqs'[1].st = "sending"

\* the awaited api.logout settles in this step, fulfilled or rejected
LogoutSettled == LogoutInFlight /\ reqs'[1].st = "done"

\* logout() runs without a backend call in this step: nothing but AuthContext
\* touches the session or the user while no request moves
LogoutSkipped ==
  /\ reqs' = reqs
  /\ pathname' = pathname
  /\ storage' # storage \/ user' # user

\* a stored token is deleted in this step
TokenRemoved == \E k \in {"access_token", "refresh_token"} : storage[k] # 0 /\ storage'[k] = 0

NoSession(store, usr) ==
  /\ getItem(store, "access_token") = 0
  /\ getItem(store, "refresh_token") = 0
  /\ usr = 0

\* C23: logout always ends with both access_token and refresh_token removed
\* and the user null, whether api.logout is fulfilled, rejected or skipped for
\* want of a refresh token; logout itself touches neither the tokens nor the
\* user before api.logout has settled (only the recovery of another request,
\* or a second logout that skips the backend call, can do so meanwhile).
C23_LogoutClearsSession ==
  [][/\ LogoutSettled => NoSession(storage', user')
     /\ LogoutSkipped => (getItem(storage, "refresh_token") = 0 /\ NoSession(storage', user'))
     /\ LogoutIssued => (storage' = storage /\ user' = user)
     /\ (LogoutInFlight /\ ~LogoutSettled /\ ~LogoutSkipped) =>
          /\ user' = user \/ reqs'[1].kind # "logout"
          /\ TokenRemoved =>
               \/ reqs'[1].kind # "logout"
               \/ \E j \in Req \ {1} : reqs[j].st # "done" /\ reqs'[j].st = "done"
    ]_vars

\* api.logout was rejected, and the session is gone all the same
C23_Witness ==
  /\ reqs[1].kind = "logout"
  /\ reqs[1].st = "done"
  /\ reqs[1].result.status # 200
  /\ reqs[1].result.attempt = 1
  /\ NoSession(storage, user)

----------------------------------------------------------------------------
(* C24 *)

\* the favicon URL of a record as an absolute URL: as it is when it starts
\* with 'http', behind the backend origin otherwise
AbsoluteFavicon(rec) ==
  IF rec.favicon_url[1] = "http"
    THEN rec.favicon_url
    ELSE << "http", "://localhost:8000" >> \o rec.favicon_url

\* C24: when the applied record has a favicon URL, apply sets the href of the
\* document's existing icon link to that URL, made absolute against the
\* backend origin when relative, and inserts an icon link only when there is
\* none; a record without a favicon URL leaves the icon links alone.  Hence
\* at most one icon link is ever inserted, and the href of the first icon link
\* is the favicon of the most recent record that supplied one.
C24_FaviconLink ==
  [][LoadSettled =>
       LET rec == theme'.customization
       IN  IF rec.favicon_url # <<>>
             THEN /\ doc'.links[1] = AbsoluteFavicon(rec)
                  /\ Len(doc'.links) = IF Len(doc.links) = 0 THEN 1 ELSE Len(doc.links)
                  /\ \A k \in 2..Len(doc.links) : doc'.links[k] = doc.links[k]
             ELSE doc'.links = doc.links
    ]_vars

\* CustomA brought a relative favicon, CustomB after it brought none
C24_Witness ==
  /\ theme.prev = CustomA.id
  /\ theme.customization = CustomB
  /\ doc.links = << <<"http", "://localhost:8000", "/uploads/favicon.ico">> >>

----------------------------------------------------------------------------
(* C25 *)

\* the getCurrentUser call of checkAuth is in slot i
IsCheckAuth(i) == reqs[i].kind = "me" /\ reqs[i].st # "idle"

\* ... and settles in this step
CheckAuthSettled(i) ==
  /\ IsCheckAuth(i)
  /\ reqs[i].st \in {"sending", "refreshing"}
  /\ reqs'[i].st = "done"

----------------------------------------------------------------------------
(* C26 *)

\* the text is empty or all blanks
IsBlank(str) == \A k \in 1..Len(str) : str[k] = " "

\* content is str without its leading and trailing blanks
IsTrimOf(content, str) ==
  \E i \in 1..(Len(str) + 1), j \in 0..Len(str) :
    /\ content = SubSeq(str, i, j)
    /\ \A k \in 1..(i - 1) : str[k] = " "
    /\ \A k \in (j + 1)..Len(str) : str[k] = " "
    /\ Len(content) > 0 => (content[1] # " " /\ content[Len(content)] # " ")

----------------------------------------------------------------------------
(* C27 *)

ShownToasts(t) == { t.toasts[k] : k \in 1..Len(t.toasts) }

\* what a step may do to the toasts, the counter and the timers
ToastStep ==
  /\ toast'.idCounter # toast.idCounter =>
       /\ toast'.idCounter = toast.idCounter + 1
       /\ toast'.last.op = "show"
       /\ toast'.last.id = toast'.idCounter
       /\ toast'.toasts = Append(toast.toasts, toast'.last.id)
       /\ (toast'.last.id \in toast'.timers) <=> (toast'.last.duration > 0)
  /\ toast'.idCounter = toast.idCounter => toast'.timers \subseteq toast.timers
  /\ Len(toast'.toasts) < Len(toast.toasts) =>
       /\ toast'.last.op \in {"remove", "timer"}
       /\ (toast'.last.op = "timer") => (toast'.last.id \in toast.timers)
       /\ Len(toast'.toasts) = Len(toast.toasts) - 1
       /\ toast'.toasts = WithoutToast(toast.toasts, toast'.last.id)
  /\ \A id \in ShownToasts(toast) \ toast.timers :
       (id \notin ShownToasts(toast')) =>
         (toast'.last.op = "remove" /\ toast'.last.id = id)

\* C27: a toast shown with duration > 0 is eventually removed from the list
\* when its timer fires, with no explicit remove; a toast shown with
\* duration <= 0 gets no timer and stays until remove(id) is called; every
\* show returns an id distinct from all earlier ids (the next value of the
\* counter), and a removal, by timer or explicit, takes the toast of that id
\* out of the list and no other.
C27_ToastLifetime ==
  /\ \A id \in ToastIds : (id \in toast.timers) ~> (id \notin ShownToasts(toast))
  /\ [][ToastStep]_vars

\* the timer of the second toast took it out and left the first, which was
\* shown without a timer
C27_Witness ==
  /\ toast.idCounter = 2
  /\ toast.last = [op |-> "timer", id |-> 2, duration |-> 0]
  /\ toast.toasts = <<1>>
  /\ toast.timers = {}

----------------------------------------------------------------------------
(* C28 *)

NotifyingCalls == {"show", "remove", "timer"}

\* C28: after every show and every remove each subscribed listener has been
\* called once, with the toast list as it is after the call, in insertion
\* order; a listener that is not subscribed (never was, or its unsubscribe
\* ran) is not called; subscribe and unsubscribe call nobody.
C28_ListenersNotified ==
  /\ \A l \in Listeners :
       /\ (toast.last.op \in NotifyingCalls /\ l \in toast.listeners) =>
             toast.heard[l] = <<toast.toasts>>
       /\ (toast.last.op \notin NotifyingCalls \/ l \notin toast.listeners) =>
             toast.heard[l] = <<>>
  /\ \A j, k \in 1..Len(toast.toasts) : j < k => toast.toasts[j] < toast.toasts[k]

\* a remove was heard by the listener still subscribed and not by the one
\* whose unsubscribe had run
C28_Witness ==
  /\ toast.last = [op |-> "remove", id |-> 1, duration |-> 0]
  /\ toast.listeners = {"l1"}
  /\ toast.unsubs = {"l1", "l2"}
  /\ toast.toasts = <<2>>
  /\ toast.heard["l1"] = <<(<<2>>)>>
  /\ toast.heard["l2"] = <<>>

----------------------------------------------------------------------------
(* C29 *)

\* the last index of the list, 0 when the list is empty
LastIndex(items) == IF Len(items) = 0 THEN 0 ELSE Len(items) - 1

Shown == filteredItems(palette.search, palette.documents)

\* a step that ran something or nothing on Enter
Entered == palette.isOpen /\ palette'.invoked # palette.invoked

\* C29: while the palette is open, under any ArrowUp, ArrowDown and search
\* changes, selectedIndex is never negative and never above the last index
\* of the filtered list (0 when the list is empty); a search change resets
\* it to 0; Enter invokes the action of the item at selectedIndex, or
\* nothing when the list is empty.
C29_SelectedIndexInRange ==
  /\ [](palette.isOpen =>
          /\ palette.selectedIndex >= 0
          /\ palette.selectedIndex <= LastIndex(Shown))
  /\ [][/\ palette'.search # palette.search => palette'.selectedIndex = 0
        /\ Entered =>
             palette'.invoked = IF Shown = <<>> THEN "nothing"
                                ELSE ItemAt(Shown, palette.selectedIndex)
       ]_vars

\* the index after ArrowDown on an empty filtered list
C29_NegativeIndex ==
  /\ palette.mounted
  /\ palette.isOpen
  /\ Shown = <<>>
  /\ palette.selectedIndex = -1

----------------------------------------------------------------------------
(* C30 *)

\* the upload was rejected in this step
UploadFailedStep ==
  upload.uploading /\ ~upload'.uploading /\ upload'.error = "upload"

\* the modal rests after a failed upload, before and after the step
RestsAfterFailure ==
  /\ ~upload.uploading /\ upload.error = "upload"
  /\ ~upload'.uploading /\ upload'.error = "upload"

\* C30: progress never exceeds 90 while an upload is in flight and is 100
\* only after the upload succeeded; a failed upload resets progress to 0 and
\* the ticker does not advance it again until a new upload is started: the
\* ticker is stopped whenever the upload settles, on success or on failure.
C30_ProgressTicker ==
  /\ [](upload.uploading => upload.progress <= 90)
  /\ [](upload.progress = 100 => upload.success)
  /\ [][UploadFailedStep => upload'.progress = 0]_vars
  /\ [][RestsAfterFailure => upload'.progress = upload.progress]_vars
  /\ [](~upload.uploading => upload.tickers = 0)

\* the ticker went on after the upload had failed
C30_TickedAfterFailure ==
  /\ upload.mounted
  /\ ~upload.uploading
  /\ upload.error = "upload"
  /\ upload.tickers = 1
  /\ upload.progress = 90

====
